---------------------------- MODULE Spec2Model ----------------------------
(***************************************************************************)
(* Model of src/cellManagementSystem.py: the cell registry, the task queue *)
(* and the event log kept in the session state, and the handlers of the    *)
(* buttons that change them.                                               *)
(*                                                                         *)
(* Conventions                                                             *)
(*  - Real-valued fields (voltage, current, temp, capacity) are fixed      *)
(*    point integers in hundredths: 3.2 V is 320, 25.0 degrees is 2500.    *)
(*  - A cell is a Python dict: a function from field names to values whose *)
(*    domain may lack fields (the sample cells have no "type").            *)
(*  - cells_data is a dict: a function from the registered ids to cells.   *)
(*  - A task id f"task_{n}" is modelled by the number n (the formatting is *)
(*    injective); the fields created, description and the type-specific    *)
(*    parameters of a task are written once and read by no handler, and    *)
(*    are left out.                                                        *)
(*  - A log entry keeps its type and its message; the message is the triple*)
(*    <<text, task number (0: none), set of cell ids>> of the text's       *)
(*    template and the values formatted into it. The timestamp is wall     *)
(*    clock time and is left out.                                          *)
(*  - notice is what the handler that ran last left on the page: the text  *)
(*    of its st.success / st.error / st.info call, "" when the handler     *)
(*    ends in st.rerun() or shows nothing.                                 *)
(*  - script_run is where the script run of a batch or emergency handler   *)
(*    stands when the handler is taken statement by statement (SpecRuns);  *)
(*    every other handler is one step, taken while no such run is going on.*)
(***************************************************************************)
EXTENDS Integers, Sequences, FiniteSets

VARIABLES cells_data, task_queue, system_logs, notice, script_run

vars == <<cells_data, task_queue, system_logs, notice, script_run>>

-----------------------------------------------------------------------------
(* Bounds of the model *)

\* A handler runs only if it leaves the log and the queue no longer than
\* this: MaxLogs entries under SpecTasks, MaxCellLogs under SpecCells, and
\* MaxTasks tasks under both.
MaxLogs == 3

MaxCellLogs == 2

MaxTasks == 2

-----------------------------------------------------------------------------
(* Python dict helpers *)

\* d[k] = v
Put(d, k, v) == [x \in (DOMAIN d) \cup {k} |-> IF x = k THEN v ELSE d[x]]

\* d.update(e)
Update(d, e) ==
    [x \in (DOMAIN d) \cup (DOMAIN e) |-> IF x \in DOMAIN e THEN e[x] ELSE d[x]]

\* del d[k]
Del(d, k) == [x \in (DOMAIN d) \ {k} |-> d[x]]

\* d.get(k, default)
Get(d, k, default) == IF k \in DOMAIN d THEN d[k] ELSE default

\* the empty dict {}
EmptyDict == [x \in {} |-> 0]

-----------------------------------------------------------------------------
(* Event log *)

\* def log_event(event_type, message)
log_event(logs, event_type, message) ==
    Append(logs, [type |-> event_type, message |-> message])

\* Message templates of the log_event calls
MsgCellAdded(id)    == <<"Cell {} added successfully", 0, {id}>>
MsgCellRemoved(id)  == <<"Cell {} removed", 0, {id}>>
MsgCellReset(id)    == <<"Cell {} reset", 0, {id}>>
MsgManual(id)       == <<"Manual parameters applied to {}", 0, {id}>>
MsgBalance          == <<"Batch balancing operation started", 0, {}>>
MsgEmergencyStop    == <<"Emergency stop - all cells stopped", 0, {}>>
MsgResetTemps       == <<"All cell temperatures reset to 25C", 0, {}>>
MsgZeroCurrents     == <<"All cell currents set to zero", 0, {}>>
MsgShutdown         == <<"EMERGENCY SHUTDOWN ACTIVATED", 0, {}>>
MsgRestart          == <<"System restart completed", 0, {}>>
MsgTaskCreated(n, cells) == <<"Task {} created for cells: {}", n, cells>>
MsgTaskStarted(n)   == <<"Task {} started", n, {}>>
MsgAllPaused        == <<"All running tasks paused", 0, {}>>
MsgTaskCancelled(n) == <<"Task {} cancelled", n, {}>>


-----------------------------------------------------------------------------
(* Cells *)

\* The ids typed into "Cell ID" or found in an uploaded document; the first
\* two are the keys of the sample data.
CellIds == {"cell_1_lfp", "cell_2_nmc", "A"}

\* "lfp" in cell_id
lfp_in_cell_id(cell_id) == cell_id \in {"cell_1_lfp"}

\* sample_cells of generate_sample_data()
sample_cells ==
    [x \in {"cell_1_lfp", "cell_2_nmc"} |->
        IF x = "cell_1_lfp"
        THEN [voltage |-> 320, current |-> 250, temp |-> 2850, capacity |-> 800,
              min_voltage |-> 280, max_voltage |-> 360, soc |-> 85,
              cycle_count |-> 150]
        ELSE [voltage |-> 370, current |-> 180, temp |-> 3210, capacity |-> 666,
              min_voltage |-> 320, max_voltage |-> 400, soc |-> 78,
              cycle_count |-> 89]]

\* Options of the "Cell Type" selectbox offered to the model
CellTypes == {"lfp", "nmc"}

\* initial_voltage = 3.2 if cell_type == "lfp" else 3.6
initial_voltage(cell_type) == IF cell_type = "lfp" THEN 320 ELSE 360

\* What the operator leaves in the number inputs of "Add New Cell": (1) the
\* widgets' defaults, (2) a negative capacity and cycle count (neither input
\* has a min_value; "State of Charge" is held in 0..100 by its widget).
AddCellForm(cell_type, n) ==
    IF n = 1
    THEN [voltage |-> initial_voltage(cell_type), current |-> 0, temp |-> 2500,
          capacity |-> 1000, soc |-> 50, cycle_count |-> 0]
    ELSE [voltage |-> 320, current |-> 0, temp |-> 2800,
          capacity |-> -100, soc |-> 85, cycle_count |-> -1]

AddCellForms(cell_type) == {AddCellForm(cell_type, n) : n \in 1..2}

\* The dict built by the "Add Cell" handler
new_cell(cell_type, form) ==
    [voltage |-> form.voltage, current |-> form.current, temp |-> form.temp,
     capacity |-> form.capacity,
     min_voltage |-> IF cell_type = "lfp" THEN 280 ELSE 320,
     max_voltage |-> IF cell_type = "lfp" THEN 360 ELSE 400,
     soc |-> form.soc, cycle_count |-> form.cycle_count, type |-> cell_type]

\* Documents uploaded to "Import Configuration": parsed JSON objects mapping
\* cell ids to attribute bundles. The first is what "Export" writes for a
\* registry holding one added cell; the second breaks the cell bounds.
ImportDocs ==
    { [x \in {"A"} |-> new_cell("nmc", [voltage |-> 360, current |-> 0,
                          temp |-> 2500, capacity |-> 1000, soc |-> 50,
                          cycle_count |-> 0])],
      [x \in {"cell_2_nmc"} |->
          [voltage |-> 370, current |-> 0, temp |-> 2500, capacity |-> 500,
           min_voltage |-> 400, max_voltage |-> 320, soc |-> 150,
           cycle_count |-> 0, type |-> "nmc"]] }

\* A JSON document is modelled as its object tree: it maps each key of the
\* top-level object to the set of members <<key, token>> of the object under
\* it, and a token is a JSON string or a JSON number. json.dumps writes a
\* Python str as a string and an int or a float as a number; a float is
\* written with repr, the shortest decimal that reads back as the same double,
\* so that the token carries the value itself.
json_token(v, is_str) ==
    IF is_str THEN [json |-> "string", text |-> v]
              ELSE [json |-> "number", text |-> v]

\* config_json = json.dumps(st.session_state.cells_data, indent=2)
json_dumps(cells) ==
    [id \in DOMAIN cells |->
        {[key |-> k, token |-> json_token(cells[id][k], k = "type")] :
            k \in DOMAIN cells[id]}]

\* A faulty parser: it drops the members that are not numbers
json_loads_numbers(document) ==
    [id \in DOMAIN document |->
        LET members == {m \in document[id] : m.token.json = "number"}
        IN [k \in {m.key : m \in members} |->
               (CHOOSE m \in members : m.key = k).token.text]]

\* config = json.loads(uploaded_file.read())
json_loads(document) ==
    [id \in DOMAIN document |->
        [k \in {m.key : m \in document[id]} |->
            (CHOOSE m \in document[id] : m.key = k).token.text]]

\* The files uploaded to "Import Configuration"
UploadedFiles == {json_dumps(config) : config \in ImportDocs}

\* Values typed into "Manual Parameter Control" ("Set SOC" is held in 0..100)
ManualForms ==
    { [voltage |-> 370, current |-> 100, temp |-> 4000, soc |-> 100] }

-----------------------------------------------------------------------------
(* Setup page *)

\* if st.button("Add Cell"): ...
AddCell(cell_id, cell_type, form) ==
    IF cell_id # ""
    THEN /\ cells_data' = Put(cells_data, cell_id, new_cell(cell_type, form))
         /\ system_logs' = log_event(system_logs, "INFO", MsgCellAdded(cell_id))
         /\ notice' = "Cell {} added successfully!"
         /\ UNCHANGED task_queue
    ELSE /\ notice' = "Please enter a valid Cell ID"
         /\ UNCHANGED <<cells_data, task_queue, system_logs>>

\* A faulty removal: it also drops the tasks that list the removed cell
RemoveCellCascade(cell_id) ==
    /\ cell_id \in DOMAIN cells_data
    /\ cells_data' = Del(cells_data, cell_id)
    /\ task_queue' = SelectSeq(task_queue, LAMBDA t : cell_id \notin t.cells)
    /\ system_logs' = log_event(system_logs, "WARNING", MsgCellRemoved(cell_id))
    /\ notice' = ""

\* if st.button(f"Remove {cell_id}"): ...
RemoveCell(cell_id) ==
    /\ cell_id \in DOMAIN cells_data
    /\ cells_data' = Del(cells_data, cell_id)
    /\ system_logs' = log_event(system_logs, "WARNING", MsgCellRemoved(cell_id))
    /\ notice' = ""
    /\ UNCHANGED task_queue

\* if uploaded_file: config = json.loads(...); cells_data.update(config)
ImportConfiguration(config) ==
    /\ cells_data' = Update(cells_data, config)
    /\ notice' = "Configuration imported successfully!"
    /\ UNCHANGED <<task_queue, system_logs>>

\* json.loads raises on a file that is not JSON: except Exception
ImportMalformed ==
    /\ notice' = "Error importing configuration: {}"
    /\ UNCHANGED <<cells_data, task_queue, system_logs>>

-----------------------------------------------------------------------------
(* Dashboard page *)

\* if not cells_data: if st.button("Load Sample Data"): generate_sample_data()
LoadSampleData ==
    /\ cells_data = EmptyDict
    /\ cells_data' = Update(cells_data, sample_cells)
    /\ notice' = ""
    /\ UNCHANGED <<task_queue, system_logs>>

-----------------------------------------------------------------------------
(* Control Panel page: shown only while the registry holds a cell *)

\* A page that shows its controls whatever the registry holds
NoPageGuard == TRUE

\* if not st.session_state.cells_data: st.warning(...) else: the controls
PageGuard == cells_data # EmptyDict

\* Apply `change` (a dict) to every cell: the loops of the batch and
\* emergency handlers, for cell_id, cell_data in cells_data.items()
ForAllCells(cells, change(_)) ==
    [id \in DOMAIN cells |-> Update(cells[id], change(id))]

\* if st.button("Reset Cell"): cell_data.update({"current": 0.0, "temp": 25.0})
ResetCell(selected_cell) ==
    /\ PageGuard
    /\ selected_cell \in DOMAIN cells_data
    /\ cells_data' = Put(cells_data, selected_cell,
                         Update(cells_data[selected_cell],
                                [current |-> 0, temp |-> 2500]))
    /\ system_logs' = log_event(system_logs, "INFO", MsgCellReset(selected_cell))
    /\ notice' = "Cell reset successfully!"
    /\ UNCHANGED task_queue

\* if st.button("Apply Changes"): cell_data.update({...}); st.rerun()
ApplyChanges(selected_cell, form) ==
    /\ PageGuard
    /\ selected_cell \in DOMAIN cells_data
    /\ cells_data' = Put(cells_data, selected_cell,
                         Update(cells_data[selected_cell],
                                [voltage |-> form.voltage, current |-> form.current,
                                 temp |-> form.temp, soc |-> form.soc]))
    /\ system_logs' = log_event(system_logs, "INFO", MsgManual(selected_cell))
    /\ notice' = ""
    /\ UNCHANGED task_queue

\* Options of the "Select Operation" selectbox
BatchOperations == {"Balance All Cells", "Emergency Stop All",
                    "Reset All Temperatures", "Set All Currents to Zero"}

\* The per-cell assignment of each branch of "Execute Batch Operation"
BatchChange(operation) ==
    CASE operation = "Balance All Cells"        -> [current |-> 100]
      [] operation = "Emergency Stop All"       -> [current |-> 0]
      [] operation = "Reset All Temperatures"   -> [temp |-> 2500]
      [] operation = "Set All Currents to Zero" -> [current |-> 0]

\* A faulty log type: every branch logs INFO
BatchLogTypeInfo(operation) == "INFO"

\* The type of the log_event call of each branch
BatchLogType(operation) ==
    IF operation = "Emergency Stop All" THEN "WARNING" ELSE "INFO"

\* The message of the log_event call of each branch
BatchLogMessage(operation) ==
    CASE operation = "Balance All Cells"        -> MsgBalance
      [] operation = "Emergency Stop All"       -> MsgEmergencyStop
      [] operation = "Reset All Temperatures"   -> MsgResetTemps
      [] operation = "Set All Currents to Zero" -> MsgZeroCurrents

\* The st.success call of each branch
BatchNotice(operation) ==
    CASE operation = "Balance All Cells"        -> "All cells set to balancing mode!"
      [] operation = "Emergency Stop All"       -> "Emergency stop executed!"
      [] operation = "Reset All Temperatures"   -> "All temperatures reset!"
      [] operation = "Set All Currents to Zero" -> "All currents set to zero!"

\* if st.button("Execute Batch Operation"): ...
ExecuteBatchOperation(operation) ==
    /\ PageGuard
    /\ cells_data' = ForAllCells(cells_data, LAMBDA id : BatchChange(operation))
    /\ system_logs' = log_event(system_logs, BatchLogType(operation),
                                BatchLogMessage(operation))
    /\ notice' = BatchNotice(operation)
    /\ UNCHANGED task_queue

\* The wrong handler: the batch "Emergency Stop All", which zeroes the
\* currents only and logs a WARNING
EmergencyStopOnly == ExecuteBatchOperation("Emergency Stop All")

\* if st.button("EMERGENCY SHUTDOWN"): ...
EmergencyShutdown ==
    /\ PageGuard
    /\ cells_data' = ForAllCells(cells_data,
                                 LAMBDA id : [current |-> 0, voltage |-> 0])
    /\ system_logs' = log_event(system_logs, "CRITICAL", MsgShutdown)
    /\ notice' = "Emergency shutdown activated!"
    /\ UNCHANGED task_queue

\* if st.button("SYSTEM RESTART"): ...
SystemRestart ==
    /\ PageGuard
    /\ cells_data' = ForAllCells(cells_data,
           LAMBDA id : IF lfp_in_cell_id(id)
                       THEN [voltage |-> 320, current |-> 0, temp |-> 2500]
                       ELSE [voltage |-> 360, current |-> 0, temp |-> 2500])
    /\ system_logs' = log_event(system_logs, "INFO", MsgRestart)
    /\ notice' = "System restarted successfully!"
    /\ UNCHANGED task_queue

-----------------------------------------------------------------------------
(* Task Manager page: shown only while the registry holds a cell *)

\* Options of the "Task Type" selectbox offered to the model
TaskTypes == {"CC_CV (Charge)"}

\* Options of the "Priority" selectbox
Priorities == {"Low", "Medium", "High", "Critical"}

\* The dict built by the "Create Task" handler
new_task(queue, task_type, target_cells, priority) ==
    [id |-> Len(queue) + 1, type |-> task_type, cells |-> target_cells,
     priority |-> priority, status |-> "Queued"]

\* A faulty "Create Task" handler: without the check `if target_cells`
CreateTaskUnchecked(task_type, target_cells, priority) ==
    /\ PageGuard
    /\ target_cells \subseteq DOMAIN cells_data
    /\ LET task == new_task(task_queue, task_type, target_cells, priority)
       IN /\ task_queue' = Append(task_queue, task)
          /\ system_logs' = log_event(system_logs, "INFO",
                                      MsgTaskCreated(task.id, target_cells))
    /\ notice' = "Task {} created successfully!"
    /\ UNCHANGED cells_data

\* if st.button("Create Task"): ...
\* target_cells is the value of a multiselect over the registry's keys.
CreateTask(task_type, target_cells, priority) ==
    /\ PageGuard
    /\ target_cells \subseteq DOMAIN cells_data
    /\ IF target_cells # {}
       THEN /\ LET task == new_task(task_queue, task_type, target_cells, priority)
               IN /\ task_queue' = Append(task_queue, task)
                  /\ system_logs' = log_event(system_logs, "INFO",
                                              MsgTaskCreated(task.id, target_cells))
            /\ notice' = "Task {} created successfully!"
            /\ UNCHANGED cells_data
       ELSE /\ notice' = "Please select at least one target cell."
            /\ UNCHANGED <<cells_data, task_queue, system_logs>>

\* The "Task Queue" tab shows its controls only if st.session_state.task_queue
QueueGuard == PageGuard /\ task_queue # <<>>

\* next_task = st.session_state.task_queue[0]
next_task_index(queue) == 1

\* if st.button("Start Next Task"): ...
StartNextTask ==
    /\ QueueGuard
    /\ LET i == next_task_index(task_queue)
       IN /\ task_queue' = [task_queue EXCEPT ![i].status = "Running"]
          /\ system_logs' = log_event(system_logs, "INFO",
                                      MsgTaskStarted(task_queue[i].id))
    /\ notice' = "Started task: {}"
    /\ UNCHANGED cells_data

\* A faulty pause loop: without the check of the task's status
pause_every_task(queue) ==
    [i \in 1..Len(queue) |-> [queue[i] EXCEPT !.status = "Paused"]]

\* for task in task_queue: if task["status"] == "Running": task["status"] = "Paused"
pause_running(queue) ==
    [i \in 1..Len(queue) |->
        IF queue[i].status = "Running"
        THEN [queue[i] EXCEPT !.status = "Paused"]
        ELSE queue[i]]

\* if st.button("Pause All Tasks"): ...
PauseAllTasks ==
    /\ QueueGuard
    /\ task_queue' = pause_running(task_queue)
    /\ system_logs' = log_event(system_logs, "WARNING", MsgAllPaused)
    /\ notice' = "All running tasks have been paused."
    /\ UNCHANGED cells_data

\* A faulty filter: it keeps the Queued tasks only
only_queued(queue) == SelectSeq(queue, LAMBDA t : t.status = "Queued")

\* [t for t in queue if t["status"] != "Completed"]
RECURSIVE not_completed(_)
not_completed(queue) ==
    IF queue = <<>> THEN <<>>
    ELSE IF Head(queue).status # "Completed"
         THEN <<Head(queue)>> \o not_completed(Tail(queue))
         ELSE not_completed(Tail(queue))

\* if st.button("Clear Completed"): ...
ClearCompleted ==
    /\ QueueGuard
    /\ task_queue' = not_completed(task_queue)
    /\ notice' = "Completed tasks cleared."
    /\ UNCHANGED <<cells_data, system_logs>>

\* selected_task = next((t for t in task_queue if t["id"] == selected_task_id), None)
\* as an index into the queue (0: None)
RECURSIVE first_with_id(_, _, _)
first_with_id(queue, task_id, i) ==
    IF i > Len(queue) THEN 0
    ELSE IF queue[i].id = task_id THEN i
    ELSE first_with_id(queue, task_id, i + 1)

selected_task(queue, selected_task_id) == first_with_id(queue, selected_task_id, 1)

\* Options of "Select task for details": [t["Task ID"] for t in queue_data]
TaskIdOptions == {task_queue[i].id : i \in 1..Len(task_queue)}

\* The status the per-task "Start" button writes
start_status(old) == "Running"

\* The status the per-task "Pause" button writes
pause_status(old) == "Paused"

\* if st.button("Start", key=f"start_{selected_task_id}"): ...
TaskStart(selected_task_id) ==
    /\ QueueGuard
    /\ selected_task_id \in TaskIdOptions
    /\ LET i == selected_task(task_queue, selected_task_id)
       IN task_queue' = [task_queue EXCEPT
                            ![i].status = start_status(task_queue[i].status)]
    /\ notice' = ""
    /\ UNCHANGED <<cells_data, system_logs>>

\* if st.button("Pause", key=f"pause_{selected_task_id}"): ...
TaskPause(selected_task_id) ==
    /\ QueueGuard
    /\ selected_task_id \in TaskIdOptions
    /\ LET i == selected_task(task_queue, selected_task_id)
       IN task_queue' = [task_queue EXCEPT
                            ![i].status = pause_status(task_queue[i].status)]
    /\ notice' = ""
    /\ UNCHANGED <<cells_data, system_logs>>

\* A faulty remove: the queue cut off at element i
remove_from(queue, i) == SubSeq(queue, 1, i - 1)

\* task_queue.remove(selected_task): the queue without its element i
remove_at(queue, i) ==
    [j \in 1..(Len(queue) - 1) |-> IF j < i THEN queue[j] ELSE queue[j + 1]]

\* A cancel that keeps the task in the queue and marks it Cancelled
TaskCancelMark(selected_task_id) ==
    /\ QueueGuard
    /\ selected_task_id \in TaskIdOptions
    /\ task_queue' = [task_queue EXCEPT
                         ![selected_task(task_queue, selected_task_id)].status =
                            "Cancelled"]
    /\ system_logs' = log_event(system_logs, "WARNING",
                                MsgTaskCancelled(selected_task_id))
    /\ notice' = ""
    /\ UNCHANGED cells_data

\* if st.button("Cancel", key=f"cancel_{selected_task_id}"): ...
TaskCancel(selected_task_id) ==
    /\ QueueGuard
    /\ selected_task_id \in TaskIdOptions
    /\ task_queue' = remove_at(task_queue,
                               selected_task(task_queue, selected_task_id))
    /\ system_logs' = log_event(system_logs, "WARNING",
                                MsgTaskCancelled(selected_task_id))
    /\ notice' = ""
    /\ UNCHANGED cells_data

-----------------------------------------------------------------------------
(* Specifications *)

\* No batch or emergency handler is running.
NoRun == [pc |-> "idle", operation |-> "", pending |-> {}, written |-> {},
          logged |-> FALSE]

\* The session state after the "Initialize session state" block
Init ==
    /\ cells_data = EmptyDict
    /\ task_queue = <<>>
    /\ system_logs = <<>>
    /\ notice = ""
    /\ script_run = NoRun

SetupStep ==
    \/ \E cell_id \in CellIds \cup {""}, cell_type \in CellTypes :
          \E form \in AddCellForms(cell_type) : AddCell(cell_id, cell_type, form)
    \/ \E cell_id \in CellIds : RemoveCell(cell_id)
    \/ \E uploaded_file \in UploadedFiles :
          ImportConfiguration(json_loads(uploaded_file))
    \/ ImportMalformed
    \/ LoadSampleData

ControlStep ==
    \/ \E id \in CellIds : ResetCell(id)
    \/ \E id \in CellIds, form \in ManualForms : ApplyChanges(id, form)
    \/ \E operation \in BatchOperations : ExecuteBatchOperation(operation)
    \/ EmergencyShutdown
    \/ SystemRestart

TaskStep ==
    \/ \E task_type \in TaskTypes, target_cells \in SUBSET CellIds,
          priority \in Priorities : CreateTask(task_type, target_cells, priority)
    \/ StartNextTask
    \/ PauseAllTasks
    \/ ClearCompleted
    \/ \E selected_task_id \in TaskIdOptions : TaskStart(selected_task_id)
    \/ \E selected_task_id \in TaskIdOptions : TaskPause(selected_task_id)
    \/ \E selected_task_id \in TaskIdOptions : TaskCancel(selected_task_id)

\* Every handler of the program, each as one step
Next == (SetupStep \/ ControlStep \/ TaskStep) /\ UNCHANGED script_run

\* The program without a bound on the log and on the queue
Spec == Init /\ [][Next]_vars

\* The step leaves at most max_logs log entries and MaxTasks tasks; it is the
\* whole run of its handler.
Within(max_logs) ==
    /\ Len(system_logs') <= max_logs
    /\ Len(task_queue') <= MaxTasks
    /\ UNCHANGED script_run

\* The task queue with the registry operations that decide which cells a
\* task may target: the handlers that only rewrite cell fields leave the
\* queue, and every guard of the Task Manager page, as they are.
\* What the operator enters in "Create New Task" under SpecTasks: every
\* priority, every selection of the sample cells, and no selection.
TaskForms ==
    { [priority |-> "Low",      cells |-> {"cell_1_lfp"}],
      [priority |-> "Critical", cells |-> {"cell_1_lfp", "cell_2_nmc"}],
      [priority |-> "Medium",   cells |-> {"cell_2_nmc"}],
      [priority |-> "High",     cells |-> {"cell_2_nmc"}],
      [priority |-> "Low",      cells |-> {}] }

NextTasks ==
    \/ LoadSampleData /\ Within(MaxLogs)
    \/ \E cell_id \in CellIds : RemoveCell(cell_id) /\ Within(MaxLogs)
    \/ \E task_type \in TaskTypes, form \in TaskForms :
          CreateTask(task_type, form.cells, form.priority) /\ Within(MaxLogs)
    \/ StartNextTask /\ Within(MaxLogs)
    \/ PauseAllTasks /\ Within(MaxLogs)
    \/ ClearCompleted /\ Within(MaxLogs)
    \/ \E selected_task_id \in TaskIdOptions :
          TaskStart(selected_task_id) /\ Within(MaxLogs)
    \/ \E selected_task_id \in TaskIdOptions :
          TaskPause(selected_task_id) /\ Within(MaxLogs)
    \/ \E selected_task_id \in TaskIdOptions :
          TaskCancel(selected_task_id) /\ Within(MaxLogs)

SpecTasks == Init /\ [][NextTasks]_vars

\* The registry with every handler that writes it, and the creation of
\* tasks so that the queue these handlers must leave alone is not empty.
\* What the operator enters in "Add New Cell" under SpecCells: an id with
\* and without the chemistry tag, each cell type, the widgets' defaults and
\* the form with the negative capacity, and no id.
AddCellRequests ==
    { [cell_id |-> "A",          cell_type |-> "lfp", form |-> 1],
      [cell_id |-> "cell_1_lfp", cell_type |-> "nmc", form |-> 1],
      [cell_id |-> "A",          cell_type |-> "nmc", form |-> 2],
      [cell_id |-> "",           cell_type |-> "lfp", form |-> 1] }

NextCells ==
    \/ \E request \in AddCellRequests :
          AddCell(request.cell_id, request.cell_type,
                  AddCellForm(request.cell_type, request.form))
             /\ Within(MaxCellLogs)
    \/ \E cell_id \in CellIds : RemoveCell(cell_id) /\ Within(MaxCellLogs)
    \/ \E uploaded_file \in UploadedFiles :
          ImportConfiguration(json_loads(uploaded_file)) /\ Within(MaxCellLogs)
    \/ ImportMalformed /\ Within(MaxCellLogs)
    \/ LoadSampleData /\ Within(MaxCellLogs)
    \/ \E id \in CellIds : ResetCell(id) /\ Within(MaxCellLogs)
    \/ \E id \in CellIds, form \in ManualForms :
          ApplyChanges(id, form) /\ Within(MaxCellLogs)
    \/ \E operation \in BatchOperations :
          ExecuteBatchOperation(operation) /\ Within(MaxCellLogs)
    \/ EmergencyShutdown /\ Within(MaxCellLogs)
    \/ SystemRestart /\ Within(MaxCellLogs)
    \/ \E task_type \in TaskTypes, priority \in {"High"} :
          CreateTask(task_type, DOMAIN cells_data, priority) /\ Within(MaxCellLogs)

SpecCells == Init /\ [][NextCells]_vars

-----------------------------------------------------------------------------
(* Vocabulary of the properties *)

ActiveStatuses == {"Queued", "Running", "Paused"}

TerminalStatuses == {"Completed", "Cancelled"}

\* Critical > High > Medium > Low
PriorityRank(priority) ==
    CASE priority = "Critical" -> 4
      [] priority = "High"     -> 3
      [] priority = "Medium"   -> 2
      [] priority = "Low"      -> 1

HasQueued(queue) == \E i \in 1..Len(queue) : queue[i].status = "Queued"

\* Task i is the Queued task of highest priority, the earliest among equals.
IsNextByPriority(queue, i) ==
    /\ queue[i].status = "Queued"
    /\ \A j \in 1..Len(queue) :
          queue[j].status = "Queued" /\ j # i =>
             \/ PriorityRank(queue[j].priority) < PriorityRank(queue[i].priority)
             \/ /\ PriorityRank(queue[j].priority) = PriorityRank(queue[i].priority)
                /\ i < j

\* The queue `after` is `before` without its element i, the rest in order.
RemovedExactly(before, after, i) ==
    /\ Len(after) = Len(before) - 1
    /\ \A j \in 1..Len(after) : after[j] = IF j < i THEN before[j] ELSE before[j + 1]

\* The step appends exactly one log entry, of the given type.
AppendsOne(event_type) ==
    /\ Len(system_logs') = Len(system_logs) + 1
    /\ SubSeq(system_logs', 1, Len(system_logs)) = system_logs
    /\ system_logs'[Len(system_logs')].type = event_type

LastLogText == IF system_logs = <<>> THEN "" ELSE system_logs[Len(system_logs)].message[1]

\* The messages "Task {} created ..." of the log, by position
CreatedAt(i) == system_logs[i].message[1] = "Task {} created for cells: {}"

-----------------------------------------------------------------------------
(* C1 *)

\* C1: whenever "Start Next Task" runs on a queue that holds a Queued task,
\* it sets to Running the Queued task of highest priority (the earliest
\* created among equals) and changes no other task.
C1_StartNextByPriority ==
    [][ (StartNextTask /\ HasQueued(task_queue)) =>
           \E i \in 1..Len(task_queue) :
              /\ IsNextByPriority(task_queue, i)
              /\ task_queue' = [task_queue EXCEPT ![i].status = "Running"] ]_vars

(* C2 *)

\* C2: no two tasks of the queue have the same id, ids increase along the
\* queue (creation order), and no id is given to two created tasks.
C2_IdsUnique ==
    /\ \A i, j \in 1..Len(task_queue) : i < j => task_queue[i].id < task_queue[j].id
    /\ \A i, j \in 1..Len(system_logs) :
          i < j /\ CreatedAt(i) /\ CreatedAt(j) =>
             system_logs[i].message[2] < system_logs[j].message[2]

(* C3 *)

\* The transition table of the task state machine
TransitionTable ==
    { <<"Queued", "Running">>, <<"Running", "Paused">>, <<"Paused", "Running">>,
      <<"Running", "Completed">>, <<"Running", "Cancelled">>,
      <<"Paused", "Cancelled">> }

\* C3: a per-task "Start" or "Pause" changes a task's status only along the
\* transition table; any other request leaves the status as it was.
C3_OverrideObeysTable ==
    [][ (\E n \in TaskIdOptions : TaskStart(n) \/ TaskPause(n)) =>
           /\ Len(task_queue') = Len(task_queue)
           /\ \A i \in 1..Len(task_queue) :
                 \/ task_queue'[i].status = task_queue[i].status
                 \/ <<task_queue[i].status, task_queue'[i].status>> \in TransitionTable
      ]_vars

(* C4 *)

\* C4: "Cancel" on a task whose status is Queued, Running or Paused removes
\* that task and no other and appends one WARNING entry; on a Completed or
\* Cancelled task it leaves the queue and the log as they were.
C4_Cancel ==
    [][ \A n \in TaskIdOptions : TaskCancel(n) =>
           \E i \in 1..Len(task_queue) :
              /\ task_queue[i].id = n
              /\ task_queue[i].status \in ActiveStatuses =>
                    /\ RemovedExactly(task_queue, task_queue', i)
                    /\ AppendsOne("WARNING")
              /\ task_queue[i].status \in TerminalStatuses =>
                    UNCHANGED <<task_queue, system_logs>>
              /\ UNCHANGED cells_data ]_vars

\* A task was cancelled out of a queue of two; the other one is still there.
C4_Witness ==
    /\ LastLogText = "Task {} cancelled"
    /\ Len(task_queue) = 1

(* C5 *)

\* C5: "Start Next Task" on a queue without a Queued task changes neither the
\* queue nor the log.
C5_StartNextQueueEmpty ==
    [][ (StartNextTask /\ ~HasQueued(task_queue)) =>
           UNCHANGED <<task_queue, system_logs>> ]_vars

(* C6 *)

\* C6: "Create Task" with no target, or with a target that is not in the
\* registry, changes neither the queue nor the log; otherwise it appends one
\* task, Queued, whose targets are not empty and all in the registry. Every
\* task of the queue has a target.
C6_CreateValidatesTargets ==
    [][ /\ \A task_type \in TaskTypes, target_cells \in SUBSET CellIds,
              priority \in Priorities :
              CreateTask(task_type, target_cells, priority) =>
                 IF target_cells = {} \/ ~(target_cells \subseteq DOMAIN cells_data)
                 THEN UNCHANGED <<cells_data, task_queue, system_logs>>
                 ELSE /\ Len(task_queue') = Len(task_queue) + 1
                      /\ SubSeq(task_queue', 1, Len(task_queue)) = task_queue
                      /\ task_queue'[Len(task_queue')].cells = target_cells
                      /\ task_queue'[Len(task_queue')].status = "Queued"
        /\ \A i \in 1..Len(task_queue') : task_queue'[i].cells # {} ]_vars

\* A create without targets was refused while the queue held a task.
C6_Witness ==
    /\ notice = "Please select at least one target cell."
    /\ task_queue # <<>>
    /\ \A i \in 1..Len(task_queue) : task_queue[i].status = "Queued"

(* C7 *)

\* C7: "Add Cell" with an id that is already in the registry changes neither
\* the registry nor the log.
C7_DuplicateIdRejected ==
    [][ \A cell_id \in CellIds, cell_type \in CellTypes :
           \A form \in AddCellForms(cell_type) :
              (AddCell(cell_id, cell_type, form) /\ cell_id \in DOMAIN cells_data) =>
                 UNCHANGED <<cells_data, system_logs>> ]_vars

(* C8 *)

\* C8: every cell of the registry has min_voltage < max_voltage,
\* capacity >= 0 and 0 <= soc <= 100.
C8_CellBounds ==
    \A id \in DOMAIN cells_data :
       /\ cells_data[id].min_voltage < cells_data[id].max_voltage
       /\ cells_data[id].capacity >= 0
       /\ cells_data[id].soc >= 0
       /\ cells_data[id].soc <= 100

(* C9 *)

PausedNotice == "All running tasks have been paused."

\* C9: "Pause All Tasks" sets every Running task to Paused and leaves every
\* other task, the order and the other fields as they were; run right after
\* itself, or with no task Running, it leaves the queue as it was.
C9_PauseAll ==
    [][ PauseAllTasks =>
           /\ Len(task_queue') = Len(task_queue)
           /\ \A i \in 1..Len(task_queue) :
                 /\ task_queue'[i].status =
                       IF task_queue[i].status = "Running" THEN "Paused"
                       ELSE task_queue[i].status
                 /\ [task_queue'[i] EXCEPT !.status = task_queue[i].status]
                       = task_queue[i]
           /\ notice = PausedNotice => task_queue' = task_queue
           /\ (\A i \in 1..Len(task_queue) : task_queue[i].status # "Running")
                 => task_queue' = task_queue ]_vars

\* "Pause All Tasks" ran twice in a row on a queue holding a task that was
\* Running.
C9_Witness ==
    /\ Len(system_logs) >= 2
    /\ system_logs[Len(system_logs)].message = MsgAllPaused
    /\ system_logs[Len(system_logs) - 1].message = MsgAllPaused
    /\ notice = PausedNotice
    /\ \E i \in 1..Len(task_queue) : task_queue[i].status = "Paused"

(* C10 *)

\* The field each batch operation overwrites, and the value it writes
BatchField(operation) ==
    IF operation = "Reset All Temperatures" THEN "temp" ELSE "current"

BatchValue(operation) ==
    CASE operation = "Balance All Cells"        -> 100
      [] operation = "Emergency Stop All"       -> 0
      [] operation = "Set All Currents to Zero" -> 0
      [] operation = "Reset All Temperatures"   -> 2500

\* C10: a batch operation writes its value to its field of every cell of the
\* registry, leaves the other fields, the registered ids and the task queue
\* as they were, and appends one log entry, WARNING for the emergency stop
\* and INFO for the other operations.
C10_Batch ==
    [][ \A operation \in BatchOperations :
           ExecuteBatchOperation(operation) =>
              /\ DOMAIN cells_data' = DOMAIN cells_data
              /\ \A id \in DOMAIN cells_data :
                    /\ DOMAIN cells_data'[id] =
                          (DOMAIN cells_data[id]) \cup {BatchField(operation)}
                    /\ cells_data'[id][BatchField(operation)] = BatchValue(operation)
                    /\ \A k \in (DOMAIN cells_data[id]) \ {BatchField(operation)} :
                          cells_data'[id][k] = cells_data[id][k]
              /\ UNCHANGED task_queue
              /\ AppendsOne(IF operation = "Emergency Stop All"
                            THEN "WARNING" ELSE "INFO") ]_vars

\* The emergency stop ran over two cells while the queue held a task.
C10_Witness ==
    /\ LastLogText = "Emergency stop - all cells stopped"
    /\ system_logs[Len(system_logs)].type = "WARNING"
    /\ Cardinality(DOMAIN cells_data) >= 2
    /\ \A id \in DOMAIN cells_data : cells_data[id].current = 0
    /\ task_queue # <<>>

-----------------------------------------------------------------------------
(* C11 *)

\* Task i of the queue lists a cell that is no longer registered.
Dangling(i) == ~(task_queue[i].cells \subseteq DOMAIN cells_data)

\* C11: removing a cell deletes exactly that cell and appends one WARNING
\* entry; the queue is left as it is, so that every task that listed the cell
\* still exists, with the same status and the same cells; and Start Next,
\* Pause All, and Start, Pause and Cancel of a task that lists an unregistered
\* cell have exactly the effect they have on any other task.
C11_RemoveKeepsTasks ==
    [][ /\ \A cell_id \in CellIds :
             RemoveCell(cell_id) =>
                /\ DOMAIN cells_data' = DOMAIN cells_data \ {cell_id}
                /\ \A id \in DOMAIN cells_data' : cells_data'[id] = cells_data[id]
                /\ AppendsOne("WARNING")
                /\ Len(task_queue') = Len(task_queue)
                /\ \A i \in 1..Len(task_queue) :
                      /\ task_queue'[i].id = task_queue[i].id
                      /\ task_queue'[i].status = task_queue[i].status
                      /\ task_queue'[i].cells = task_queue[i].cells
        /\ \A i \in 1..Len(task_queue) :
             (Dangling(i) /\ selected_task(task_queue, task_queue[i].id) = i) =>
                /\ TaskStart(task_queue[i].id) =>
                      /\ task_queue'[i].status = "Running"
                      /\ Len(task_queue') = Len(task_queue)
                /\ TaskPause(task_queue[i].id) =>
                      /\ task_queue'[i].status = "Paused"
                      /\ Len(task_queue') = Len(task_queue)
                /\ TaskCancel(task_queue[i].id) =>
                      RemovedExactly(task_queue, task_queue', i)
                /\ (StartNextTask /\ i = 1) => task_queue'[i].status = "Running"
                /\ (PauseAllTasks /\ task_queue[i].status = "Running") =>
                      task_queue'[i].status = "Paused"
      ]_vars

\* A cell was removed, and the task that still lists it was then started by
\* "Start Next Task".
C11_Witness ==
    /\ Len(system_logs) = 3
    /\ system_logs[2].message[1] = "Cell {} removed"
    /\ system_logs[3].message[1] = "Task {} started"
    /\ task_queue # <<>>
    /\ system_logs[2].message[3] \subseteq task_queue[1].cells
    /\ task_queue[1].status = "Running"

-----------------------------------------------------------------------------
(* The event log and the Dashboard's view of it *)

\* How many entries "Recent System Logs" shows: system_logs[-10:]
RecentCount == 10

\* A faulty slice: logs[:n], the oldest n entries
first_entries(logs, n) ==
    IF n >= Len(logs) THEN logs ELSE SubSeq(logs, 1, n)

\* The Python slice logs[-n:] (logs[-0:] is logs[0:], the whole list)
last_entries(logs, n) ==
    IF n = 0 \/ n >= Len(logs)
    THEN logs
    ELSE SubSeq(logs, Len(logs) - n + 1, Len(logs))

\* pd.DataFrame(st.session_state.system_logs[-10:])
recent_logs(logs) == last_entries(logs, RecentCount)

\* Under SpecLog a handler runs only if it leaves at most MaxExtraLogs entries
\* more than the log of InitLog holds.
MaxExtraLogs == 2

\* The session after "Load Sample Data" and RecentCount - 1 clicks of
\* "EMERGENCY SHUTDOWN": a log one entry short of what the Dashboard shows.
InitLog ==
    /\ cells_data = ForAllCells(sample_cells,
                                LAMBDA id : [current |-> 0, voltage |-> 0])
    /\ task_queue = <<>>
    /\ system_logs = [i \in 1..(RecentCount - 1) |->
                         [type |-> "CRITICAL", message |-> MsgShutdown]]
    /\ notice = "Emergency shutdown activated!"
    /\ script_run = NoRun

WithinLog ==
    /\ Len(system_logs') <= RecentCount - 1 + MaxExtraLogs
    /\ Len(task_queue') <= MaxTasks
    /\ UNCHANGED script_run

\* Every handler of the program, on a log that grows past RecentCount. The
\* operator adds a cell with the widgets' defaults, with and without an id,
\* imports the export of the sample cells, and creates tasks of the default
\* priority for every cell and for none.
NextLog ==
    \/ \E cell_id \in {"A", ""} :
          AddCell(cell_id, "lfp", AddCellForm("lfp", 1)) /\ WithinLog
    \/ \E cell_id \in CellIds : RemoveCell(cell_id) /\ WithinLog
    \/ \E uploaded_file \in {json_dumps(sample_cells)} :
          ImportConfiguration(json_loads(uploaded_file)) /\ WithinLog
    \/ ImportMalformed /\ WithinLog
    \/ LoadSampleData /\ WithinLog
    \/ \E id \in CellIds : ResetCell(id) /\ WithinLog
    \/ \E id \in CellIds, form \in ManualForms : ApplyChanges(id, form) /\ WithinLog
    \/ \E operation \in BatchOperations :
          ExecuteBatchOperation(operation) /\ WithinLog
    \/ EmergencyShutdown /\ WithinLog
    \/ SystemRestart /\ WithinLog
    \/ \E task_type \in TaskTypes, target_cells \in {{}, DOMAIN cells_data} :
          CreateTask(task_type, target_cells, "Medium") /\ WithinLog
    \/ StartNextTask /\ WithinLog
    \/ PauseAllTasks /\ WithinLog
    \/ ClearCompleted /\ WithinLog
    \/ \E selected_task_id \in TaskIdOptions : TaskStart(selected_task_id) /\ WithinLog
    \/ \E selected_task_id \in TaskIdOptions : TaskPause(selected_task_id) /\ WithinLog
    \/ \E selected_task_id \in TaskIdOptions : TaskCancel(selected_task_id) /\ WithinLog

SpecLog == InitLog /\ [][NextLog]_vars

-----------------------------------------------------------------------------
(* C12 *)

\* `shown` is the last min(n, Len(logs)) entries of logs, oldest first.
IsTail(shown, logs, n) ==
    LET m == IF n <= Len(logs) THEN n ELSE Len(logs)
    IN /\ Len(shown) = m
       /\ \A k \in 1..m : shown[k] = logs[Len(logs) - m + k]

\* C12: the log is append-only, every step leaves the old log as a prefix of
\* the new one; and the recent entries the Dashboard shows are the last
\* min(10, length) entries of the log, oldest first.
C12_AppendOnlyRecent ==
    [][ /\ Len(system_logs') >= Len(system_logs)
        /\ \A i \in 1..Len(system_logs) : system_logs'[i] = system_logs[i]
        /\ IsTail(recent_logs(system_logs), system_logs, RecentCount)
        /\ IsTail(recent_logs(system_logs'), system_logs', RecentCount)
      ]_vars

\* The log holds more entries than the Dashboard shows, the newest of them
\* written by another handler than the oldest.
C12_Witness ==
    /\ Len(system_logs) > RecentCount
    /\ system_logs[Len(system_logs)].message[1] = "Task {} cancelled"
    /\ recent_logs(system_logs)[1] = system_logs[Len(system_logs) - RecentCount + 1]

-----------------------------------------------------------------------------
(* C13 *)

\* C13: every step that changes the registry or the queue appends at least
\* one entry to the log.
C13_ChangesAreLogged ==
    [][ (cells_data' # cells_data \/ task_queue' # task_queue) =>
           /\ Len(system_logs') > Len(system_logs)
           /\ SubSeq(system_logs', 1, Len(system_logs)) = system_logs
      ]_vars

-----------------------------------------------------------------------------
(* C14 *)

\* The positions of `queue` whose task is not Completed
KeptPositions(queue) == {i \in 1..Len(queue) : queue[i].status # "Completed"}

\* C14: "Clear Completed" leaves in the queue exactly the tasks that are not
\* Completed, each with its fields unchanged and in the order they had, and
\* leaves the registry unchanged.
C14_ClearCompleted ==
    [][ ClearCompleted =>
          LET kept == KeptPositions(task_queue)
          IN /\ Len(task_queue') = Cardinality(kept)
             /\ \A i \in kept :
                   task_queue'[Cardinality({j \in kept : j <= i})] = task_queue[i]
             /\ cells_data' = cells_data
      ]_vars

\* "Clear Completed" has run on a queue of two tasks, one of them Paused and
\* one Running, and both are still there.
C14_Witness ==
    /\ notice = "Completed tasks cleared."
    /\ Len(task_queue) = 2
    /\ {task_queue[1].status, task_queue[2].status} = {"Paused", "Running"}

-----------------------------------------------------------------------------
(* get_cell_status *)

\* The Python floats are IEEE doubles, and min_voltage + 0.1 is rounded: for
\* these min_voltage (hundredths, the multiples of 0.1 V up to 5 V) the sum is
\* the double above the one that voltage = min_voltage + 0.1 reads as, so that
\* voltage < (min_voltage + 0.1) holds for it; for the others it does not
\* (2.8 + 0.1 == 2.9, and 3.2 + 0.1 == 3.3000000000000003 > 3.3).
SumRoundsUp == {20, 110, 130, 160, 180, 220, 270, 320, 370}

\* voltage < (min_voltage + 0.1)
below_min_plus_tenth(voltage, min_voltage) ==
    \/ voltage < min_voltage + 10
    \/ voltage = min_voltage + 10 /\ min_voltage \in SumRoundsUp

\* def get_cell_status(cell_data)
get_cell_status(cell_data) ==
    LET voltage == Get(cell_data, "voltage", 0)
        temp == Get(cell_data, "temp", 0)
        min_voltage == Get(cell_data, "min_voltage", 0)
        max_voltage == Get(cell_data, "max_voltage", 0)
    IN IF voltage < min_voltage \/ voltage > max_voltage \/ temp > 4500
       THEN "Critical"
       ELSE IF temp > 3500 \/ below_min_plus_tenth(voltage, min_voltage)
            THEN "Warning"
            ELSE "Good"

\* Values typed into "Set Voltage (V)" and "Set Temperature" under SpecStatus:
\* on both sides of, and on, each threshold of get_cell_status
StatusVoltages == {270, 280, 290, 320, 330, 370, 400, 410}

StatusTemps == {2800, 3500, 3510, 4000, 4500, 4510}

StatusForms ==
    [voltage : StatusVoltages, current : {0}, temp : StatusTemps, soc : {50}]

\* Cell "A" of either chemistry is added, with the widgets' defaults or at
\* 3.2 V and 28 degrees, and its voltage and temperature are then set by hand.
NextStatus ==
    \/ \E cell_type \in CellTypes : \E form \in AddCellForms(cell_type) :
          AddCell("A", cell_type, form) /\ Within(MaxCellLogs)
    \/ \E form \in StatusForms : ApplyChanges("A", form) /\ Within(MaxCellLogs)

SpecStatus == Init /\ [][NextStatus]_vars

-----------------------------------------------------------------------------
(* C15 *)

\* The status the rule gives, in exact decimal arithmetic: Critical if the
\* voltage is outside [min_voltage, max_voltage] or the temperature is above
\* 45; otherwise Warning if the temperature is above 35 or the voltage is
\* below min_voltage + 0.1; otherwise Good.
StatusByRule(cell) ==
    IF cell.voltage < cell.min_voltage \/ cell.voltage > cell.max_voltage
          \/ cell.temp > 4500
    THEN "Critical"
    ELSE IF cell.temp > 3500 \/ cell.voltage < cell.min_voltage + 10
         THEN "Warning"
         ELSE "Good"

\* C15: every registered cell is classified by the rule; in particular cell A
\* (min 2.8 V, max 3.6 V) is Good at 3.2 V and 28 degrees, Warning at 3.2 V and
\* 40 degrees, and Critical at 3.7 V and 40 degrees.
C15_Classify ==
    \A id \in DOMAIN cells_data :
       get_cell_status(cells_data[id]) = StatusByRule(cells_data[id])

-----------------------------------------------------------------------------
(* C16 *)

\* C16: the emergency shutdown can run whenever the Control Panel shows its
\* button; it sets current and voltage of every cell of the registry to 0,
\* leaves the other fields, the registered ids and the task queue as they
\* were, and appends exactly one CRITICAL log entry.
C16_Shutdown ==
    [][ /\ PageGuard => ENABLED EmergencyShutdown
        /\ EmergencyShutdown =>
              /\ DOMAIN cells_data' = DOMAIN cells_data
              /\ \A id \in DOMAIN cells_data :
                    /\ DOMAIN cells_data'[id] =
                          (DOMAIN cells_data[id]) \cup {"current", "voltage"}
                    /\ cells_data'[id].current = 0
                    /\ cells_data'[id].voltage = 0
                    /\ \A k \in (DOMAIN cells_data[id]) \ {"current", "voltage"} :
                          cells_data'[id][k] = cells_data[id][k]
              /\ UNCHANGED task_queue
              /\ AppendsOne("CRITICAL")
      ]_vars

\* The shutdown ran over two cells while the queue held a task: both cells
\* are at 0 V and 0 A and have kept their temperature.
C16_Witness ==
    /\ LastLogText = "EMERGENCY SHUTDOWN ACTIVATED"
    /\ system_logs[Len(system_logs)].type = "CRITICAL"
    /\ Cardinality(DOMAIN cells_data) >= 2
    /\ \A id \in DOMAIN cells_data :
          cells_data[id].current = 0 /\ cells_data[id].voltage = 0
    /\ \E id \in DOMAIN cells_data : cells_data[id].temp # 2500
    /\ task_queue # <<>>

-----------------------------------------------------------------------------
(* C17 *)

\* The chemistry of a cell: its type attribute; the sample cells have none
\* and carry the chemistry in their id.
Chemistry(cell_id, cell) ==
    Get(cell, "type", IF lfp_in_cell_id(cell_id) THEN "lfp" ELSE "unknown")

\* The nominal voltage of a chemistry: 3.2 V for LFP, 3.6 V for any other
NominalVoltage(chemistry) == IF chemistry = "lfp" THEN 320 ELSE 360

\* C17: the system restart sets, on every cell of the registry, current to 0,
\* temperature to 25 and voltage to the nominal voltage of the cell's
\* chemistry, whatever the cell's id, and appends exactly one INFO log entry.
C17_Restart ==
    [][ SystemRestart =>
          /\ DOMAIN cells_data' = DOMAIN cells_data
          /\ \A id \in DOMAIN cells_data :
                /\ cells_data'[id].current = 0
                /\ cells_data'[id].temp = 2500
                /\ cells_data'[id].voltage =
                      NominalVoltage(Chemistry(id, cells_data[id]))
          /\ AppendsOne("INFO")
      ]_vars

-----------------------------------------------------------------------------
(* Analytics page: the cell health scoring of "Health Monitoring" *)

\* Scores are fixed point integers in 1/400 of a point, so that the mean of
\* four scores is exact: n points
Points(n) == n * 400

\* max(0, x)
max0(x) == IF x > 0 THEN x ELSE 0

\* abs(x)
abs(x) == IF x < 0 THEN -x ELSE x

\* The entry of health_scores for one cell
health_score(cell_data) ==
    LET voltage == Get(cell_data, "voltage", 0)
        temp == Get(cell_data, "temp", 0)
        cycle_count == Get(cell_data, "cycle_count", 0)
        soc == Get(cell_data, "soc", 0)
        \* 100 - abs(voltage - 3.5) * 50: half a point per hundredth of a volt
        voltage_score == IF 300 <= voltage /\ voltage <= 400
                         THEN Points(100)
                         ELSE max0(Points(100) - abs(voltage - 350) * 200)
        \* 100 - (temp - 35) * 5: a twentieth of a point per hundredth of a degree
        temp_score == IF temp <= 3500
                      THEN Points(100)
                      ELSE max0(Points(100) - (temp - 3500) * 20)
        \* 100 - (cycle_count / 1000) * 100: a tenth of a point per cycle
        cycle_score == max0(Points(100) - cycle_count * 40)
        soc_score == IF 20 <= soc /\ soc <= 80
                     THEN Points(100)
                     ELSE max0(Points(100) - abs(soc - 50) * Points(2))
    IN [overall |-> (voltage_score + temp_score + cycle_score + soc_score) \div 4,
        voltage |-> voltage_score,
        temperature |-> temp_score,
        cycles |-> cycle_score,
        soc |-> soc_score]

-----------------------------------------------------------------------------
(* C18 *)

InScoreRange(score) == 0 <= score /\ score <= Points(100)

\* C18: for every cell of the registry the four sub-scores and the overall
\* score lie in [0, 100]; a cell at 3.5 V, 25 degrees, 0 cycles and soc 50
\* scores exactly 100 overall; more than 1000 cycles give a cycle score of 0.
C18_ScoresInRange ==
    \A id \in DOMAIN cells_data :
       LET cell == cells_data[id]
           score == health_score(cell)
       IN /\ InScoreRange(score.voltage)
          /\ InScoreRange(score.temperature)
          /\ InScoreRange(score.cycles)
          /\ InScoreRange(score.soc)
          /\ InScoreRange(score.overall)
          /\ (cell.voltage = 350 /\ cell.temp = 2500 /\ cell.cycle_count = 0
                 /\ cell.soc = 50) => score.overall = Points(100)
          /\ cell.cycle_count > 1000 => score.cycles = 0

-----------------------------------------------------------------------------
(* The Setup page's export and import of the registry *)

\* The handlers that add, remove and import cells, and the sample data
NextConfig ==
    \/ \E request \in AddCellRequests :
          AddCell(request.cell_id, request.cell_type,
                  AddCellForm(request.cell_type, request.form))
             /\ Within(MaxCellLogs)
    \/ \E cell_id \in CellIds : RemoveCell(cell_id) /\ Within(MaxCellLogs)
    \/ \E uploaded_file \in UploadedFiles \cup {json_dumps(sample_cells)} :
          ImportConfiguration(json_loads(uploaded_file)) /\ Within(MaxCellLogs)
    \/ ImportMalformed /\ Within(MaxCellLogs)
    \/ LoadSampleData /\ Within(MaxCellLogs)

SpecConfig == Init /\ [][NextConfig]_vars

-----------------------------------------------------------------------------
(* C19 *)

\* The registry after "Export Current Configuration" on the registry `cells`
\* and an import of the downloaded file into an empty registry
Reimported(cells) == Update(EmptyDict, json_loads(json_dumps(cells)))

\* `after` holds the same ids as `before`, and under each id the same fields
\* with the same values.
SameCells(before, after) ==
    /\ DOMAIN after = DOMAIN before
    /\ \A id \in DOMAIN before :
          /\ DOMAIN after[id] = DOMAIN before[id]
          /\ \A k \in DOMAIN before[id] : after[id][k] = before[id][k]

-----------------------------------------------------------------------------
(* The batch and emergency handlers, statement by statement *)

\* The script of a session runs in one thread, top to bottom, once per
\* interaction: a handler is part of one script run, and the pages that read
\* the registry and the log are drawn by another run. The next run starts when
\* the current one has ended, or has been stopped by the next interaction,
\* which takes effect where the script calls st.<element>.

RunOperations == BatchOperations \cup {"EMERGENCY SHUTDOWN", "SYSTEM RESTART"}

\* The update of one cell in the loop of the handler
RunChange(operation, cell_id) ==
    CASE operation \in BatchOperations -> BatchChange(operation)
      [] operation = "EMERGENCY SHUTDOWN" -> [current |-> 0, voltage |-> 0]
      [] operation = "SYSTEM RESTART" ->
            [voltage |-> IF lfp_in_cell_id(cell_id) THEN 320 ELSE 360,
             current |-> 0, temp |-> 2500]

\* The log_event call after the loop
RunLogType(operation) ==
    CASE operation \in BatchOperations -> BatchLogType(operation)
      [] operation = "EMERGENCY SHUTDOWN" -> "CRITICAL"
      [] operation = "SYSTEM RESTART" -> "INFO"

RunLogMessage(operation) ==
    CASE operation \in BatchOperations -> BatchLogMessage(operation)
      [] operation = "EMERGENCY SHUTDOWN" -> MsgShutdown
      [] operation = "SYSTEM RESTART" -> MsgRestart

\* The st.success / st.error call that ends the handler
RunNotice(operation) ==
    CASE operation \in BatchOperations -> BatchNotice(operation)
      [] operation = "EMERGENCY SHUTDOWN" -> "Emergency shutdown activated!"
      [] operation = "SYSTEM RESTART" -> "System restarted successfully!"

\* A faulty handler: it also reports its progress from inside the loop
YieldPointsInLoop == {"loop", "message"}

\* Where a run stands before a call of st.<element>: the handlers call none
\* between the first statement of the loop and log_event, and st.success or
\* st.error after it.
YieldPoints == {"message"}

Idle == script_run.pc = "idle"

\* The button is clicked: the run reaches the handler, for ... in
\* st.session_state.cells_data.items()
HandlerBegins(operation) ==
    /\ Idle
    /\ PageGuard
    /\ Len(system_logs) < MaxCellLogs
    /\ script_run' = [pc |-> "loop", operation |-> operation,
                      pending |-> DOMAIN cells_data, written |-> {},
                      logged |-> FALSE]
    /\ notice' = ""
    /\ UNCHANGED <<cells_data, task_queue, system_logs>>

\* One iteration of the loop. The dict is walked in insertion order, which
\* the registry of the model does not keep: any order is taken.
LoopStep ==
    /\ script_run.pc = "loop"
    /\ \E cell_id \in script_run.pending :
          /\ cells_data' = Put(cells_data, cell_id,
                               Update(cells_data[cell_id],
                                      RunChange(script_run.operation, cell_id)))
          /\ script_run' = [script_run EXCEPT !.pending = @ \ {cell_id},
                                              !.written = @ \cup {cell_id}]
    /\ UNCHANGED <<task_queue, system_logs, notice>>

\* log_event(...) after the loop
LogStep ==
    /\ script_run.pc = "loop"
    /\ script_run.pending = {}
    /\ system_logs' = log_event(system_logs, RunLogType(script_run.operation),
                                RunLogMessage(script_run.operation))
    /\ script_run' = [script_run EXCEPT !.pc = "message", !.logged = TRUE]
    /\ UNCHANGED <<cells_data, task_queue, notice>>

\* st.success(...) / st.error(...): the handler, and the run, end
MessageStep ==
    /\ script_run.pc = "message"
    /\ notice' = RunNotice(script_run.operation)
    /\ script_run' = [script_run EXCEPT !.pc = "idle"]
    /\ UNCHANGED <<cells_data, task_queue, system_logs>>

\* The next interaction stops the run where it calls st.<element>.
RunStopped ==
    /\ script_run.pc \in YieldPoints
    /\ notice' = ""
    /\ script_run' = [script_run EXCEPT !.pc = "idle"]
    /\ UNCHANGED <<cells_data, task_queue, system_logs>>

\* The reader: a run that draws the Dashboard, the status of every cell and
\* the recent log entries
ReadSnapshot ==
    /\ Idle
    /\ PageGuard
    /\ notice' = ""
    /\ UNCHANGED <<cells_data, task_queue, system_logs, script_run>>

NextRuns ==
    \/ Idle /\ LoadSampleData /\ Within(MaxCellLogs)
    \/ Idle /\ AddCell("A", "lfp", AddCellForm("lfp", 2)) /\ Within(MaxCellLogs)
    \/ \E operation \in RunOperations : HandlerBegins(operation)
    \/ LoopStep
    \/ LogStep
    \/ MessageStep
    \/ RunStopped
    \/ ReadSnapshot

SpecRuns == Init /\ [][NextRuns]_vars

-----------------------------------------------------------------------------
(* C20 *)

\* Some cell already carries the value of the operation and another cell of
\* the registry still waits for it.
HalfApplied ==
    \E a \in script_run.written, b \in script_run.pending :
       /\ b \in DOMAIN cells_data
       /\ Update(cells_data[b], RunChange(script_run.operation, b)) # cells_data[b]

\* Cells are written and the log entry of the operation is not appended.
ChangedNotLogged == script_run.written # {} /\ ~script_run.logged

-----------------------------------------------------------------------------
(* C21 *)

\* The step is the per-task Cancel of some task of the queue.
IsCancelStep == \E selected_task_id \in TaskIdOptions : TaskCancel(selected_task_id)

\* C21: no step sets the status of a task to Completed or Cancelled, every
\* task of the queue is Queued, Running or Paused; "Clear Completed" leaves
\* the queue as it is; and a step that is not the per-task Cancel keeps every
\* task of the queue at its position, so that Cancel is the only way a task
\* leaves the queue.
C21_NoTerminalStatus ==
    [][ /\ \A i \in 1..Len(task_queue) : task_queue[i].status \in ActiveStatuses
        /\ \A i \in 1..Len(task_queue') : task_queue'[i].status \in ActiveStatuses
        /\ ClearCompleted => task_queue' = task_queue
        /\ ~IsCancelStep =>
              /\ Len(task_queue') >= Len(task_queue)
              /\ \A i \in 1..Len(task_queue) :
                    /\ task_queue'[i].id = task_queue[i].id
                    /\ task_queue'[i].cells = task_queue[i].cells
                    /\ task_queue'[i].priority = task_queue[i].priority
      ]_vars

\* "Clear Completed" has run on a queue from which one task was cancelled and
\* whose other task was started: that task is still in the queue.
C21_Witness ==
    /\ notice = "Completed tasks cleared."
    /\ Len(system_logs) = 3
    /\ \E i \in 1..3 : system_logs[i].message[1] = "Task {} cancelled"
    /\ Len(task_queue) = 1
    /\ task_queue[1].status \in {"Running", "Paused"}

-----------------------------------------------------------------------------
(* C22 *)

\* Some handler of the Task Manager page can run.
QueueOperationEnabled ==
    \/ ENABLED (\E task_type \in TaskTypes, form \in TaskForms :
                   CreateTask(task_type, form.cells, form.priority))
    \/ ENABLED (\E task_type \in TaskTypes : CreateTask(task_type, {}, "Medium"))
    \/ ENABLED StartNextTask
    \/ ENABLED PauseAllTasks
    \/ ENABLED ClearCompleted
    \/ ENABLED (\E selected_task_id \in TaskIdOptions : TaskStart(selected_task_id))
    \/ ENABLED (\E selected_task_id \in TaskIdOptions : TaskPause(selected_task_id))
    \/ ENABLED (\E selected_task_id \in TaskIdOptions : TaskCancel(selected_task_id))

\* The step is the run of a handler of the Task Manager page.
IsQueueOperation ==
    \/ \E task_type \in TaskTypes, form \in TaskForms :
          CreateTask(task_type, form.cells, form.priority)
    \/ StartNextTask
    \/ PauseAllTasks
    \/ ClearCompleted
    \/ \E selected_task_id \in TaskIdOptions : TaskStart(selected_task_id)
    \/ \E selected_task_id \in TaskIdOptions : TaskPause(selected_task_id)
    \/ \E selected_task_id \in TaskIdOptions : TaskCancel(selected_task_id)

\* C22: while the registry is empty no handler of the Task Manager page can
\* run, and every step leaves the queue, the tasks and their statuses, as it
\* is; a handler of the page runs only on a registry that holds a cell; and
\* once a cell is registered again the tasks of the queue can be started,
\* paused and cancelled again.
C22_QueueNeedsCells ==
    [][ /\ cells_data = EmptyDict =>
              /\ ~QueueOperationEnabled
              /\ task_queue' = task_queue
        /\ IsQueueOperation => cells_data # EmptyDict
        /\ (cells_data # EmptyDict /\ task_queue # <<>>) =>
              \A i \in 1..Len(task_queue) :
                 /\ ENABLED TaskStart(task_queue[i].id)
                 /\ ENABLED TaskPause(task_queue[i].id)
                 /\ ENABLED TaskCancel(task_queue[i].id)
      ]_vars

\* The last cell was removed while the queue held a Running task: the
\* registry is empty and the task is still Running.
C22_Witness ==
    /\ cells_data = EmptyDict
    /\ LastLogText = "Cell {} removed"
    /\ task_queue # <<>>
    /\ task_queue[1].status = "Running"

=============================================================================
